---- MODULE Spec2Model ----
(***************************************************************************)
(* Study-room CRUD handlers (app/controllers/study_room_controller.py) and *)
(* the StudyRoom record (app/models/study_room.py).                        *)
(*                                                                         *)
(* Strings are sequences of one-character strings, so that strip(),        *)
(* int(), strptime(), isoformat() and strftime() are computed and not      *)
(* assumed.  The characters are those of Latin-1: its decimal digits are   *)
(* "0".."9" and its whitespace is the set Whitespace below.  A JSON value  *)
(* is a record [t, n, s, d]: t is its type tag, n its number (for "int",   *)
(* "bool" and the length of a "list"), s its characters (for "str"); a     *)
(* "float" is the fraction n / d.                                          *)
(***************************************************************************)
EXTENDS Integers, Sequences, FiniteSets, TLC

VARIABLES store, nextId, session, loaded, pc, req, resp, deleted, createdAs

vars == <<store, nextId, session, loaded, pc, req, resp, deleted, createdAs>>

(***************************************************************************)
(* Bounds: the room ids the storage layer hands out, and the workers that  *)
(* serve requests at the same time.                                        *)
(***************************************************************************)
MaxRooms == 2

RoomIds == 1..MaxRooms

NumWorkers == 2

Workers == 1..NumWorkers

(***************************************************************************)
(* JSON values of a request body.                                          *)
(***************************************************************************)
Absent == [t |-> "absent", n |-> 0, s |-> <<>>, d |-> 1]

JNull == [t |-> "null", n |-> 0, s |-> <<>>, d |-> 1]

JInt(k) == [t |-> "int", n |-> k, s |-> <<>>, d |-> 1]

JStr(str) == [t |-> "str", n |-> 0, s |-> str, d |-> 1]

(* true / false *)
JBool(b) == [t |-> "bool", n |-> IF b THEN 1 ELSE 0, s |-> <<>>, d |-> 1]

(* a number that json.loads read as a float: the float's value, the        *)
(* fraction num / den with den > 0                                         *)
JFloat(num, den) == [t |-> "float", n |-> num, s |-> <<>>, d |-> den]

(* a number literal beyond the float range (1e400), read as infinity *)
JInf == [t |-> "inf", n |-> 0, s |-> <<>>, d |-> 1]

(* NaN, which json.loads reads *)
JNaN == [t |-> "nan", n |-> 0, s |-> <<>>, d |-> 1]

(* an array or an object of k members *)
JList(k) == [t |-> "list", n |-> k, s |-> <<>>, d |-> 1]

Digits == {"0", "1", "2", "3", "4", "5", "6", "7", "8", "9"}

DigitVal(c) ==
  CASE c = "0" -> 0 [] c = "1" -> 1 [] c = "2" -> 2 [] c = "3" -> 3
    [] c = "4" -> 4 [] c = "5" -> 5 [] c = "6" -> 6 [] c = "7" -> 7
    [] c = "8" -> 8 [] c = "9" -> 9

DigitChar(k) ==
  CASE k = 0 -> "0" [] k = 1 -> "1" [] k = 2 -> "2" [] k = 3 -> "3"
    [] k = 4 -> "4" [] k = 5 -> "5" [] k = 6 -> "6" [] k = 7 -> "7"
    [] k = 8 -> "8" [] k = 9 -> "9"

IsDigitAt(str, i) == i >= 1 /\ i <= Len(str) /\ str[i] \in Digits

AllDigits(str) == \A i \in 1..Len(str) : str[i] \in Digits

RECURSIVE DigitsVal(_)
DigitsVal(str) ==
  IF Len(str) = 0 THEN 0
  ELSE 10 * DigitsVal(SubSeq(str, 1, Len(str) - 1)) + DigitVal(str[Len(str)])

(***************************************************************************)
(* The characters str.isspace() holds of: space, \t \n \r \f, and written *)
(* as themselves U+000B, U+001C..U+001F, U+0085 and U+00A0.                *)
(***************************************************************************)
Whitespace ==
  {" ", "\t", "\n", "\r", "\f", "", "", "", "", "", "", " "}

(* str.strip(): drop leading and trailing whitespace *)
RECURSIVE LStrip(_)
LStrip(str) ==
  IF Len(str) > 0 /\ str[1] \in Whitespace THEN LStrip(Tail(str)) ELSE str

RECURSIVE RStrip(_)
RStrip(str) ==
  IF Len(str) > 0 /\ str[Len(str)] \in Whitespace
  THEN RStrip(SubSeq(str, 1, Len(str) - 1))
  ELSE str

Strip(str) == RStrip(LStrip(str))

(***************************************************************************)
(* int(x) of Python.  On a string: [ok, v].  The string is stripped of the *)
(* whitespace int() knows (not U+001C..U+001F), may carry one sign, and is *)
(* then digits with single underscores allowed between two digits; int()   *)
(* raises ValueError on more than IntMaxStrDigits digits (the sign, the    *)
(* whitespace and the underscores are not counted, leading zeros are).     *)
(***************************************************************************)
IntMaxStrDigits == 4300

IntWhitespace == Whitespace \ {"", "", "", ""}

RECURSIVE IntStrip(_)
IntStrip(str) ==
  IF Len(str) > 0 /\ str[1] \in IntWhitespace THEN IntStrip(Tail(str))
  ELSE IF Len(str) > 0 /\ str[Len(str)] \in IntWhitespace
       THEN IntStrip(SubSeq(str, 1, Len(str) - 1))
  ELSE str

(* leading zeros do not count in the value *)
DropLeadingZeros(ds) ==
  IF \A i \in 1..Len(ds) : ds[i] = "0" THEN <<>>
  ELSE SubSeq(ds, CHOOSE i \in 1..Len(ds) : ds[i] # "0" /\ \A j \in 1..(i - 1) : ds[j] = "0",
              Len(ds))

IsIntLiteral(d) ==
  /\ Len(d) > 0
  /\ d[1] \in Digits /\ d[Len(d)] \in Digits
  /\ \A i \in 1..Len(d) : d[i] \in Digits \cup {"_"}
  /\ \A i \in 1..(Len(d) - 1) : ~(d[i] = "_" /\ d[i + 1] = "_")

IntOfStr(str) ==
  LET b == IntStrip(str)
      signed == Len(b) > 0 /\ b[1] \in {"+", "-"}
      d == IF signed THEN Tail(b) ELSE b
      ds == SelectSeq(d, LAMBDA c : c \in Digits)
      n == DigitsVal(DropLeadingZeros(ds))
  IN  IF IsIntLiteral(d) /\ Len(ds) <= IntMaxStrDigits
      THEN [ok |-> TRUE, v |-> IF signed /\ b[1] = "-" THEN 0 - n ELSE n]
      ELSE [ok |-> FALSE, v |-> 0]

(* int() of the float num / den: the fraction is dropped, toward zero *)
IntOfFloat(num, den) == IF num >= 0 THEN num \div den ELSE 0 - ((0 - num) \div den)

(***************************************************************************)
(* int(x) on a JSON value: [ok, v, raises].  ok FALSE is ValueError or     *)
(* TypeError (None, a list, an object, NaN, a string that is no integer);  *)
(* raises is OverflowError (infinity), which the handlers' inner except    *)
(* clauses do not catch.                                                   *)
(***************************************************************************)
PyInt(j) ==
  CASE j.t \in {"int", "bool"} -> [ok |-> TRUE, v |-> j.n, raises |-> FALSE]
    [] j.t = "str" -> [ok |-> IntOfStr(j.s).ok, v |-> IntOfStr(j.s).v, raises |-> FALSE]
    [] j.t = "float" -> [ok |-> TRUE, v |-> IntOfFloat(j.n, j.d), raises |-> FALSE]
    [] j.t = "inf" -> [ok |-> FALSE, v |-> 0, raises |-> TRUE]
    [] OTHER -> [ok |-> FALSE, v |-> 0, raises |-> FALSE]

(* bool(x) on a JSON value *)
JTruthy(j) ==
  CASE j.t \in {"int", "bool", "list", "float"} -> j.n # 0
    [] j.t = "str" -> j.s # <<>>
    [] j.t \in {"inf", "nan"} -> TRUE
    [] OTHER -> FALSE

(***************************************************************************)
(* Calendar.                                                               *)
(***************************************************************************)
IsLeap(y) == (y % 4 = 0 /\ y % 100 # 0) \/ y % 400 = 0

DaysInMonth(y, m) ==
  IF m = 2 THEN (IF IsLeap(y) THEN 29 ELSE 28)
  ELSE IF m \in {4, 6, 9, 11} THEN 30 ELSE 31

NoDate == <<0, 0, 0>>

(***************************************************************************)
(* datetime.strptime(s, '%Y-%m-%d').date(): [ok, d].  The directive        *)
(* patterns are \d\d\d\d, 1[0-2]|0[1-9]|[1-9] and                          *)
(* 3[01]|[12]\d|0[1-9]|[1-9]| [1-9]; the whole string must be consumed and *)
(* the date must exist.                                                    *)
(***************************************************************************)
MonthTwo(str, i) ==
  /\ IsDigitAt(str, i) /\ IsDigitAt(str, i + 1)
  /\ \/ str[i] = "1" /\ str[i + 1] \in {"0", "1", "2"}
     \/ str[i] = "0" /\ str[i + 1] # "0"

MonthOne(str, i) == IsDigitAt(str, i) /\ str[i] # "0"

DayMatch(r) ==
  LET two == Len(r) >= 2 /\ r[1] \in Digits /\ r[2] \in Digits
  IN  IF two /\ r[1] = "3" /\ r[2] \in {"0", "1"} THEN [n |-> 2, v |-> 30 + DigitVal(r[2])]
      ELSE IF two /\ r[1] \in {"1", "2"} THEN [n |-> 2, v |-> 10 * DigitVal(r[1]) + DigitVal(r[2])]
      ELSE IF two /\ r[1] = "0" /\ r[2] # "0" THEN [n |-> 2, v |-> DigitVal(r[2])]
      ELSE IF Len(r) >= 1 /\ r[1] \in Digits /\ r[1] # "0" THEN [n |-> 1, v |-> DigitVal(r[1])]
      ELSE IF Len(r) >= 2 /\ r[1] = " " /\ r[2] \in Digits /\ r[2] # "0"
           THEN [n |-> 2, v |-> DigitVal(r[2])]
      ELSE [n |-> 0, v |-> 0]

ParseDate(str) ==
  LET bad == [ok |-> FALSE, d |-> NoDate]
      yearOk == Len(str) >= 5 /\ AllDigits(SubSeq(str, 1, 4)) /\ str[5] = "-"
      y == DigitsVal(SubSeq(str, 1, 4))
      mLen == IF MonthTwo(str, 6) /\ Len(str) >= 8 /\ str[8] = "-" THEN 2
              ELSE IF MonthOne(str, 6) /\ Len(str) >= 7 /\ str[7] = "-" THEN 1
              ELSE 0
      m == DigitsVal(SubSeq(str, 6, 5 + mLen))
      rest == SubSeq(str, 7 + mLen, Len(str))
      dm == DayMatch(rest)
  IN  IF ~yearOk \/ mLen = 0 THEN bad
      ELSE IF dm.n = 0 \/ dm.n # Len(rest) THEN bad
      ELSE IF y < 1 \/ dm.v > DaysInMonth(y, m) THEN bad
      ELSE [ok |-> TRUE, d |-> <<y, m, dm.v>>]

(***************************************************************************)
(* datetime.strptime(s, '%H:%M').time(): [ok, h, mi].  The directive       *)
(* patterns are 2[0-3]|[0-1]\d|\d and [0-5]\d|\d.                          *)
(***************************************************************************)
HourTwo(str) ==
  /\ IsDigitAt(str, 1) /\ IsDigitAt(str, 2)
  /\ \/ str[1] = "2" /\ str[2] \in {"0", "1", "2", "3"}
     \/ str[1] \in {"0", "1"}

MinuteMatch(r) ==
  IF Len(r) >= 2 /\ r[1] \in {"0", "1", "2", "3", "4", "5"} /\ r[2] \in Digits
  THEN [n |-> 2, v |-> 10 * DigitVal(r[1]) + DigitVal(r[2])]
  ELSE IF Len(r) >= 1 /\ r[1] \in Digits THEN [n |-> 1, v |-> DigitVal(r[1])]
  ELSE [n |-> 0, v |-> 0]

ParseTime(str) ==
  LET bad == [ok |-> FALSE, h |-> 0, mi |-> 0]
      hLen == IF HourTwo(str) /\ Len(str) >= 3 /\ str[3] = ":" THEN 2
              ELSE IF IsDigitAt(str, 1) /\ Len(str) >= 2 /\ str[2] = ":" THEN 1
              ELSE 0
      h == DigitsVal(SubSeq(str, 1, hLen))
      rest == SubSeq(str, hLen + 2, Len(str))
      mm == MinuteMatch(rest)
  IN  IF hLen = 0 THEN bad
      ELSE IF mm.n = 0 \/ mm.n # Len(rest) THEN bad
      ELSE [ok |-> TRUE, h |-> h, mi |-> mm.v]

(***************************************************************************)
(* date.isoformat() and datetime.strftime('%H:%M').                        *)
(***************************************************************************)
Pad2(k) == <<DigitChar(k \div 10), DigitChar(k % 10)>>

Pad4(k) ==
  <<DigitChar(k \div 1000), DigitChar((k \div 100) % 10),
    DigitChar((k \div 10) % 10), DigitChar(k % 10)>>

IsoFormat(d) == Pad4(d[1]) \o <<"-">> \o Pad2(d[2]) \o <<"-">> \o Pad2(d[3])

(* a variant that does not zero-pad: %-H:%-M *)
FormatHMUnpadded(h, mi) ==
  (IF h < 10 THEN <<DigitChar(h)>> ELSE Pad2(h)) \o <<":">>
    \o (IF mi < 10 THEN <<DigitChar(mi)>> ELSE Pad2(mi))

FormatHM(h, mi) == Pad2(h) \o <<":">> \o Pad2(mi)

(***************************************************************************)
(* Stored values.  A stored date is <<y, m, d>> (NoDate is None).  A       *)
(* stored start_time / end_time is a record [t, d, h, mi, s, b]: a         *)
(* datetime, None, a string s, an object without strftime whose str() is   *)
(* s, or an object whose strftime raises something other than              *)
(* AttributeError or ValueError; b is the value's truth value (bool(x)),   *)
(* which an object of the last two kinds decides for itself.               *)
(***************************************************************************)
Combine(d, tm) ==
  [t |-> "datetime", d |-> d, h |-> tm.h, mi |-> tm.mi, s |-> <<>>, b |-> TRUE]

TNone == [t |-> "null", d |-> NoDate, h |-> 0, mi |-> 0, s |-> <<>>, b |-> FALSE]

TStr(str) == [t |-> "str", d |-> NoDate, h |-> 0, mi |-> 0, s |-> str, b |-> str # <<>>]

TNoAttr(str, b) == [t |-> "noattr", d |-> NoDate, h |-> 0, mi |-> 0, s |-> str, b |-> b]

TRaises(b) == [t |-> "raises", d |-> NoDate, h |-> 0, mi |-> 0, s |-> <<>>, b |-> b]

(* StudyRoom.__init__ *)
StudyRoom(name, capacity, creator_id, description, date, start_time, end_time, location, mode) ==
  [name |-> name, capacity |-> capacity, creator_id |-> creator_id,
   description |-> description, date |-> date, start_time |-> start_time,
   end_time |-> end_time, location |-> location, mode |-> mode]

(***************************************************************************)
(* Responses.  A body is the JSON object of one room; date is a JSON value *)
(* because fetch-all answers null for a missing date.                      *)
(***************************************************************************)
ZeroTime == <<"0", "0", ":", "0", "0">>

Body(room_id, name, description, capacity, date, start_time, end_time, error) ==
  [room_id |-> room_id, name |-> name, description |-> description,
   capacity |-> capacity, date |-> date, start_time |-> start_time,
   end_time |-> end_time, error |-> error]

NoBody == Body(0, <<>>, <<>>, 0, JNull, <<>>, <<>>, FALSE)

Resp(status, message) ==
  [status |-> status, message |-> message, room_id |-> 0, room |-> NoBody, rooms |-> <<>>]

NoResp == Resp(0, "")

RequiredFields ==
  {"name", "capacity", "creator_id", "date", "start_time", "end_time", "location", "mode"}

(***************************************************************************)
(* create_study_room: the outcome of the validation pipeline on payload p. *)
(* st is "ok" (a room was built), "400" (a step answered) or "raise" (an   *)
(* exception reached the handler's except clause: .strip() of a value that *)
(* is not a string, int() of an infinite number).                          *)
(***************************************************************************)
CreateDescription(j) ==
  IF j.t = "str" /\ j.s # <<>> THEN [ok |-> TRUE, v |-> JStr(Strip(j.s))]
  ELSE IF JTruthy(j) THEN [ok |-> FALSE, v |-> JNull]
  ELSE IF j.t = "absent" THEN [ok |-> TRUE, v |-> JNull]
  ELSE [ok |-> TRUE, v |-> j]

CreateOutcome(p) ==
  LET raise == [st |-> "raise", message |-> "Creation failed"]
      r400(m) == [st |-> "400", message |-> m]
      cap == PyInt(p.capacity)
      cre == PyInt(p.creator_id)
      dt == ParseDate(Strip(p.date.s))
      st == ParseTime(Strip(p.start_time.s))
      et == ParseTime(Strip(p.end_time.s))
      desc == CreateDescription(p.description)
  IN  IF \E f \in RequiredFields : p[f].t = "absent" THEN r400("Missing required fields")
      ELSE IF p.name.t # "str" THEN raise
      ELSE IF Strip(p.name.s) = <<>> THEN r400("Study room name cannot be empty")
      ELSE IF cap.raises THEN raise
      ELSE IF ~cap.ok THEN r400("Capacity must be an integer")
      ELSE IF cap.v <= 0 THEN r400("Capacity must be greater than zero")
      ELSE IF cre.raises THEN raise
      ELSE IF ~cre.ok THEN r400("Creator ID must be an integer")
      ELSE IF p.date.t # "str" THEN raise
      ELSE IF Strip(p.date.s) = <<>> THEN r400("Date is required")
      ELSE IF ~dt.ok THEN r400("Invalid date format, expected YYYY-MM-DD")
      ELSE IF p.start_time.t # "str" THEN raise
      ELSE IF Strip(p.start_time.s) = <<>> THEN r400("Start time is required")
      ELSE IF ~st.ok THEN r400("Invalid start_time format, expected HH:mm")
      ELSE IF p.end_time.t # "str" THEN raise
      ELSE IF Strip(p.end_time.s) = <<>> THEN r400("End time is required")
      ELSE IF ~et.ok THEN r400("Invalid end_time format, expected HH:mm")
      ELSE IF p.location.t # "str" THEN raise
      ELSE IF Strip(p.location.s) = <<>> THEN r400("Location is required")
      ELSE IF p.mode.t # "str" THEN raise
      ELSE IF Strip(p.mode.s) = <<>> THEN r400("Mode is required")
      ELSE IF ~desc.ok THEN raise
      ELSE [st |-> "ok", message |-> "Study room created"]

CreateRoom(p) ==
  StudyRoom(Strip(p.name.s), PyInt(p.capacity).v, PyInt(p.creator_id).v,
            CreateDescription(p.description).v,
            ParseDate(Strip(p.date.s)).d,
            Combine(ParseDate(Strip(p.date.s)).d, ParseTime(Strip(p.start_time.s))),
            Combine(ParseDate(Strip(p.date.s)).d, ParseTime(Strip(p.end_time.s))),
            Strip(p.location.s), Strip(p.mode.s))

(***************************************************************************)
(* Serialization on the read paths.  TimeStr is the start_time / end_time  *)
(* block shared by get_study_room and get_all_study_rooms: [ok, s], ok     *)
(* FALSE when strftime raises past the except clause.                      *)
(***************************************************************************)
TimeStr(tv) ==
  CASE tv.t = "null" -> [ok |-> TRUE, s |-> ZeroTime]
    [] tv.t = "datetime" -> [ok |-> TRUE, s |-> FormatHM(tv.h, tv.mi)]
    [] tv.t = "str" -> [ok |-> TRUE, s |-> tv.s]
    [] tv.t = "noattr" -> [ok |-> TRUE, s |-> ZeroTime]
    [] OTHER -> [ok |-> FALSE, s |-> <<>>]

DateStr(d) == IF d = NoDate THEN JNull ELSE JStr(IsoFormat(d))

OrEmpty(j) == IF j.t = "str" THEN j.s ELSE <<>>

RoomLabel(id) == <<"R", "o", "o", "m", " ", DigitChar(id)>>

(* the response body built by get_study_room for a record that was found *)
GetBody(id, room) ==
  LET st == TimeStr(room.start_time)
      et == TimeStr(room.end_time)
  IN  IF ~st.ok \/ ~et.ok
      THEN Body(id, RoomLabel(id), <<>>, 0, JStr(<<>>), ZeroTime, ZeroTime, TRUE)
      ELSE Body(id, room.name, OrEmpty(room.description), room.capacity,
                JStr(OrEmpty(DateStr(room.date))),
                IF st.s # <<>> THEN st.s ELSE ZeroTime,
                IF et.s # <<>> THEN et.s ELSE ZeroTime, FALSE)

(* the body get_study_room answers when the lookup itself raises *)
GetErrorBody(id) ==
  Body(id, <<"E", "r", "r", "o", "r", " ">> \o RoomLabel(id), <<>>, 0, JStr(<<>>),
       ZeroTime, ZeroTime, TRUE)

(* one entry of get_all_study_rooms *)
ListEntry(id, room) ==
  LET st == TimeStr(room.start_time)
      et == TimeStr(room.end_time)
  IN  IF ~st.ok \/ ~et.ok
      THEN Body(id, RoomLabel(id), <<>>, 0, JNull, ZeroTime, ZeroTime, TRUE)
      ELSE Body(id, room.name, OrEmpty(room.description), room.capacity,
                DateStr(room.date), st.s, et.s, FALSE)

(* the results StudyRoom.query.all() can give for the rows ids: each row   *)
(* once, in an order the query does not fix (it has no ORDER BY)           *)
QueryAll(ids) ==
  {o \in [1..Cardinality(ids) -> ids] :
     \A i, j \in 1..Cardinality(ids) : i # j => o[i] # o[j]}

(* a variant that drops the records whose serialization fails *)
RECURSIVE ListEntriesDroppingFailed(_, _)
ListEntriesDroppingFailed(rooms, order) ==
  IF order = <<>> THEN <<>>
  ELSE (IF ListEntry(Head(order), rooms[Head(order)]).error THEN <<>>
        ELSE <<ListEntry(Head(order), rooms[Head(order)])>>)
       \o ListEntriesDroppingFailed(rooms, Tail(order))

(* rooms_data: one entry per row of the query result, in its order *)
RECURSIVE ListEntries(_, _)
ListEntries(rooms, order) ==
  IF order = <<>> THEN <<>>
  ELSE <<ListEntry(Head(order), rooms[Head(order)])>> \o ListEntries(rooms, Tail(order))

(***************************************************************************)
(* StudyRoom.to_dict, the body of a successful update.                     *)
(***************************************************************************)
Truthy(tv) == tv.b

ToDictTime(tv) ==
  LET raw == CASE tv.t = "datetime" -> FormatHM(tv.h, tv.mi)
               [] tv.t \in {"str", "noattr"} -> tv.s
               [] OTHER -> ZeroTime
      text == IF Truthy(tv) THEN raw ELSE ZeroTime
  IN  IF Len(text) # 5 THEN ZeroTime ELSE text

ToDict(id, room) ==
  IF \/ room.start_time.t = "raises" /\ Truthy(room.start_time)
     \/ room.end_time.t = "raises" /\ Truthy(room.end_time)
  THEN Body(id, room.name, <<>>, 0, JStr(<<>>), ZeroTime, ZeroTime, TRUE)
  ELSE Body(id, room.name, OrEmpty(room.description), room.capacity,
            JStr(OrEmpty(DateStr(room.date))),
            ToDictTime(room.start_time), ToDictTime(room.end_time), FALSE)

(***************************************************************************)
(* update_study_room: the field steps in the handler's order.  u is        *)
(* [st, message, room, dirty]: st is "run", "400" or "raise"; room is the  *)
(* in-memory record; dirty says an attribute of it was assigned.           *)
(***************************************************************************)
UpdString(u, j, field) ==
  IF u.st # "run" \/ j.t = "absent" THEN u
  ELSE IF j.t # "str" THEN [u EXCEPT !.st = "raise"]
  ELSE [u EXCEPT !.room[field] = Strip(j.s), !.dirty = TRUE]

UpdDescription(u, j) ==
  IF u.st # "run" \/ j.t = "absent" THEN u
  ELSE IF j.t # "str" THEN [u EXCEPT !.st = "raise"]
  ELSE [u EXCEPT !.room.description = JStr(Strip(j.s)), !.dirty = TRUE]

UpdCapacity(u, j) ==
  IF u.st # "run" \/ j.t = "absent" THEN u
  ELSE IF PyInt(j).raises THEN [u EXCEPT !.st = "raise"]
  ELSE IF ~PyInt(j).ok
       THEN [u EXCEPT !.st = "400", !.message = "Capacity must be an integer"]
  ELSE [u EXCEPT !.room.capacity = PyInt(j).v, !.dirty = TRUE]

UpdDate(u, j) ==
  IF u.st # "run" \/ j.t = "absent" THEN u
  ELSE IF j.t # "str" THEN [u EXCEPT !.st = "raise"]
  ELSE IF ~ParseDate(Strip(j.s)).ok
       THEN [u EXCEPT !.st = "400", !.message = "Invalid date format, expected YYYY-MM-DD"]
  ELSE [u EXCEPT !.room.date = ParseDate(Strip(j.s)).d, !.dirty = TRUE]

UpdTime(u, j, field, message) ==
  IF u.st # "run" \/ j.t = "absent" THEN u
  ELSE IF j.t # "str" THEN [u EXCEPT !.st = "raise"]
  ELSE IF ~ParseTime(Strip(j.s)).ok THEN [u EXCEPT !.st = "400", !.message = message]
  ELSE IF u.room.date = NoDate THEN [u EXCEPT !.st = "raise"]
  ELSE [u EXCEPT !.room[field] = Combine(u.room.date, ParseTime(Strip(j.s))),
                 !.dirty = TRUE]

UpdateOutcome(room, p) ==
  LET u0 == [st |-> "run", message |-> "", room |-> room, dirty |-> FALSE]
      u1 == UpdString(u0, p.name, "name")
      u2 == UpdDescription(u1, p.description)
      u3 == UpdCapacity(u2, p.capacity)
      u4 == UpdDate(u3, p.date)
      u5 == UpdTime(u4, p.start_time, "start_time", "Invalid start_time format, expected HH:mm")
      u6 == UpdTime(u5, p.end_time, "end_time", "Invalid end_time format, expected HH:mm")
      u7 == UpdString(u6, p.location, "location")
  IN  UpdString(u7, p.mode, "mode")

(***************************************************************************)
(* Request payloads.                                                       *)
(***************************************************************************)
Fields ==
  {"name", "capacity", "creator_id", "date", "start_time", "end_time",
   "location", "mode", "description"}

NoPayload == [f \in Fields |-> Absent]

SDate1 == <<"2", "0", "2", "4", "-", "0", "6", "-", "0", "1">>

SDate1Short == <<"2", "0", "2", "4", "-", "6", "-", "1">>

SDate2 == <<"2", "0", "2", "4", "-", "0", "6", "-", "0", "2">>

SDateFeb30 == <<"2", "0", "2", "4", "-", "0", "2", "-", "3", "0">>

SNine == <<"0", "9", ":", "0", "0">>

SNineShort == <<"9", ":", "0", "0">>

SNinePadded == <<" ", "0", "9", ":", "0", "0", " ">>

STwentyFour == <<"2", "4", ":", "0", "0">>

STenThirty == <<"1", "0", ":", "3", "0">>

STenSixty == <<"1", "0", ":", "6", "0">>

SLastMinute == <<"2", "3", ":", "5", "9">>

STenThirtyPadded == <<"\n", "1", "0", ":", "3", "0", "\t">>

SJunk == <<"j", "u", "n", "k">>

SBlank == <<" ", " ">>

ValidPayload ==
  [name |-> JStr(<<"A">>), capacity |-> JInt(5), creator_id |-> JInt(1),
   date |-> JStr(SDate1), start_time |-> JStr(SNine), end_time |-> JStr(STenThirty),
   location |-> JStr(<<"L">>), mode |-> JStr(<<"o", "n">>), description |-> Absent]

(* the values a field of a create payload ranges over *)
CreateValues(f) ==
  CASE f = "name" ->
         {Absent, JNull, JStr(<<"\t", "A", "\n">>), JStr(<<" ", "\t", " ">>), JBool(TRUE)}
    [] f = "capacity" ->
         {Absent, JNull, JInt(0), JStr(<<"-", "1">>), JStr(<<"a", "b", "c">>),
          JStr(<<"0", "_", "5">>), JStr(<<"5", "_", "_", "0">>), JStr(<<"\t", "5", "\n">>),
          JBool(FALSE), JFloat(11, 2), JFloat(1, 2), JInf, JNaN}
    [] f = "creator_id" ->
         {Absent, JStr(<<"x">>), JStr(<<" ", "1">>), JBool(TRUE), JList(1)}
    [] f = "date" ->
         {Absent, JNull, JStr(<<>>), JStr(SDate2), JStr(SDateFeb30), JStr(SJunk)}
    [] f = "start_time" ->
         {Absent, JStr(SBlank), JStr(SNineShort), JStr(SLastMinute), JStr(STwentyFour)}
    [] f = "end_time" -> {Absent, JNull, JStr(<<>>), JStr(STenThirtyPadded), JStr(STenSixty)}
    [] f = "location" -> {Absent, JStr(SBlank)}
    [] f = "mode" -> {Absent, JStr(<<>>), JInt(3)}
    [] f = "description" ->
         {JNull, JStr(<<"\t", "d", " ">>), JInt(3), JBool(TRUE), JList(1)}

(* the payloads of P with one field replaced *)
Replace(P) ==
  UNION {{[q EXCEPT ![f] = v] : q \in P, v \in CreateValues(f)} : f \in Fields}

(* create payloads that differ from a valid one in at most two fields *)
WideCreates == {ValidPayload} \cup Replace({ValidPayload}) \cup Replace(Replace({ValidPayload}))

CreateSamples ==
  {ValidPayload,
   [ValidPayload EXCEPT !.capacity = JInt(0)],
   [ValidPayload EXCEPT !.name = JNull],
   [ValidPayload EXCEPT !.end_time = Absent]}

UpdateSamples ==
  {NoPayload,
   [NoPayload EXCEPT !.name = JStr(<<" ", "B", " ">>)],
   [NoPayload EXCEPT !.name = JStr(<<" ", "B", " ">>), !.capacity = JStr(<<"a", "b", "c">>)],
   [NoPayload EXCEPT !.name = JStr(<<" ", "B", " ">>), !.description = JStr(<<" ", "d", " ">>),
                     !.capacity = JStr(<<"a", "b", "c">>)],
   [NoPayload EXCEPT !.capacity = JStr(<<"a", "b", "c">>)],
   [NoPayload EXCEPT !.name = JNull, !.capacity = JStr(<<"a", "b", "c">>)],
   [NoPayload EXCEPT !.name = JStr(<<" ", "B", " ">>), !.description = JNull],
   [NoPayload EXCEPT !.capacity = JInt(0)],
   [NoPayload EXCEPT !.capacity = JStr(<<" ", "5", " ">>)],
   [NoPayload EXCEPT !.date = JStr(SDate2)],
   [NoPayload EXCEPT !.date = JStr(SJunk)],
   [NoPayload EXCEPT !.start_time = JStr(SNineShort)],
   [NoPayload EXCEPT !.start_time = JStr(STwentyFour)],
   [NoPayload EXCEPT !.date = JStr(SDate2), !.end_time = JStr(STenSixty)],
   [NoPayload EXCEPT !.location = JStr(<<" ", "L", " ">>), !.mode = JStr(<<"o", "n">>)]}

(***************************************************************************)
(* State.  store is the committed table (room_id -> record) and nextId the *)
(* next primary key.  The handlers run in workers, each serving one        *)
(* request at a time with a session of its own (db.session is scoped to    *)
(* the worker).  For worker w: pc[w] is "idle" between requests, "loaded"  *)
(* when update or delete has read its row and not yet committed, "created" *)
(* or "committed" when create or update has committed and not yet read the *)
(* row again for its answer, and "returned" when the handler has returned  *)
(* and the request is not yet torn down; req[w] and resp[w] are the        *)
(* request and its response; loaded[w] is the record the handler holds (as *)
(* StudyRoom.query.get read it, or as create built it); session[w] holds   *)
(* the records assigned to but neither committed nor rolled back.  deleted *)
(* (ids whose delete answered 200) and createdAs (the date and times a     *)
(* room was created with, kept until an update or delete is asked of it)   *)
(* are history.                                                            *)
(***************************************************************************)
Empty == [i \in {} |-> NoPayload]

NoReq == [op |-> "none", id |-> 0, p |-> NoPayload, fault |-> "none"]

Req(op, id, p, fault) == [op |-> op, id |-> id, p |-> p, fault |-> fault]

Remove(f, id) == [i \in DOMAIN f \ {id} |-> f[i]]

Put(f, id, v) == [i \in DOMAIN f \cup {id} |-> IF i = id THEN v ELSE f[i]]

Init ==
  /\ store = Empty
  /\ nextId = 1
  /\ session = [w \in Workers |-> Empty]
  /\ loaded = [w \in Workers |-> Empty]
  /\ pc = [w \in Workers |-> "idle"]
  /\ req = [w \in Workers |-> NoReq]
  /\ resp = [w \in Workers |-> NoResp]
  /\ deleted = {}
  /\ createdAs = Empty

(* worker w returns from its handler with response r *)
Return(w, r) ==
  /\ pc' = [pc EXCEPT ![w] = "returned"]
  /\ resp' = [resp EXCEPT ![w] = r]
  /\ loaded' = [loaded EXCEPT ![w] = Empty]

(* a variant that gives a new row the smallest key no stored row has *)
AssignRoomIdOfFreed ==
  CHOOSE i \in 1..nextId : i \notin DOMAIN store /\ \A j \in 1..(i - 1) : j \in DOMAIN store

(* the primary key the storage layer gives a new row: never one it gave before *)
AssignRoomId == nextId

(***************************************************************************)
(* create_study_room up to db.session.commit() (line 106); fault "commit"  *)
(* is the commit raising.  The storage layer hands out at most MaxRooms    *)
(* ids.                                                                    *)
(***************************************************************************)
CreateStudyRoom(w, p, fault) ==
  LET o == CreateOutcome(p)
  IN  /\ pc[w] = "idle"
      /\ nextId <= MaxRooms
      /\ req' = [req EXCEPT ![w] = Req("create", 0, p, fault)]
      /\ UNCHANGED <<session, deleted>>
      /\ IF o.st = "ok" /\ fault = "commit"
         THEN /\ UNCHANGED <<store, nextId, createdAs>>
              /\ Return(w, Resp(500, "Creation failed"))
         ELSE IF o.st = "ok"
         THEN /\ store' = Put(store, AssignRoomId, CreateRoom(p))
              /\ nextId' = nextId + 1
              /\ createdAs' = Put(createdAs, AssignRoomId,
                                  [date |-> p.date.s, start_time |-> p.start_time.s,
                                   end_time |-> p.end_time.s])
              /\ pc' = [pc EXCEPT ![w] = "created"]
              /\ loaded' = [loaded EXCEPT ![w] = Put(Empty, AssignRoomId, CreateRoom(p))]
              /\ resp' = resp
         ELSE /\ UNCHANGED <<store, nextId, createdAs>>
              /\ Return(w, Resp(IF o.st = "400" THEN 400 ELSE 500, o.message))

(***************************************************************************)
(* The answer of a committed create (line 108): new_room.room_id is read   *)
(* from the storage layer again, the commit having expired the record.     *)
(* When the row has been deleted since, the read raises and the except     *)
(* clause answers 500.                                                     *)
(***************************************************************************)
CreateReturn(w) ==
  LET id == CHOOSE i \in DOMAIN loaded[w] : TRUE
  IN  /\ pc[w] = "created"
      /\ Return(w, IF id \in DOMAIN store
                   THEN [Resp(201, "Study room created") EXCEPT !.room_id = id]
                   ELSE Resp(500, "Creation failed"))
      /\ UNCHANGED <<store, nextId, session, req, deleted, createdAs>>

(* a variant whose lookup failure reaches the caller as a server error *)
GetResponseSurfacingFault(rooms, id, fault) ==
  IF fault = "lookup" THEN Resp(500, "Lookup failed")
  ELSE IF id \notin DOMAIN rooms THEN Resp(404, "Room not found")
  ELSE [Resp(200, "") EXCEPT !.room = GetBody(id, rooms[id])]

(* get_study_room; fault "lookup" is StudyRoom.query.get raising *)
GetResponse(rooms, id, fault) ==
  IF fault = "lookup" THEN [Resp(200, "") EXCEPT !.room = GetErrorBody(id)]
  ELSE IF id \notin DOMAIN rooms THEN Resp(404, "Room not found")
  ELSE [Resp(200, "") EXCEPT !.room = GetBody(id, rooms[id])]

GetStudyRoom(w, id, fault) ==
  /\ pc[w] = "idle"
  /\ req' = [req EXCEPT ![w] = Req("get", id, NoPayload, fault)]
  /\ Return(w, GetResponse(store, id, fault))
  /\ UNCHANGED <<store, nextId, session, deleted, createdAs>>

(* get_all_study_rooms; fault "lookup" is StudyRoom.query.all raising,     *)
(* order the rows it gives otherwise                                       *)
GetAllStudyRooms(w, fault, order) ==
  /\ pc[w] = "idle"
  /\ req' = [req EXCEPT ![w] = Req("list", 0, NoPayload, fault)]
  /\ Return(w, IF fault = "lookup" THEN Resp(200, "")
               ELSE [Resp(200, "") EXCEPT !.rooms = ListEntries(store, order)])
  /\ UNCHANGED <<store, nextId, session, deleted, createdAs>>

(***************************************************************************)
(* update_study_room, in its two round trips to the storage layer.  The    *)
(* first is StudyRoom.query.get: fault "lookup" is its raising, which the  *)
(* except clause answers 500 after a rollback.                             *)
(***************************************************************************)
UpdateLookup(w, id, p, fault) ==
  /\ pc[w] = "idle"
  /\ req' = [req EXCEPT ![w] = Req("update", id, p, fault)]
  /\ createdAs' = Remove(createdAs, id)
  /\ UNCHANGED <<store, nextId, session, deleted>>
  /\ IF fault = "lookup" THEN Return(w, Resp(500, "Update failed"))
     ELSE IF id \notin DOMAIN store THEN Return(w, Resp(404, "Room not found"))
     ELSE /\ pc' = [pc EXCEPT ![w] = "loaded"]
          /\ loaded' = [loaded EXCEPT ![w] = Put(Empty, id, store[id])]
          /\ resp' = resp

(* a variant that rolls back before answering 400 *)
SessionAfterUpdateRolledBack(id, u) == Empty

(* what update_study_room leaves in the session when it returns *)
SessionAfterUpdate(id, u) ==
  IF u.st = "400" /\ u.dirty THEN Put(Empty, id, u.room) ELSE Empty

(* the row db.session.commit() writes: the UPDATE sets the columns whose   *)
(* value the handler changed and leaves the others as they are stored      *)
RowAfterCommit(stored, read, assigned) ==
  [f \in DOMAIN stored |-> IF assigned[f] # read[f] THEN assigned[f] ELSE stored[f]]

(***************************************************************************)
(* The second round trip: the field assignments on the row as it was read, *)
(* then db.session.commit() (line 363).  A 400 returns before the commit.  *)
(* The commit raises under fault "commit", and when the handler changed a  *)
(* column of a row that was deleted since it was read (the UPDATE finds no *)
(* row): each is answered 500 after a rollback.                            *)
(***************************************************************************)
UpdateCommit(w) ==
  LET id == req[w].id
      u == UpdateOutcome(loaded[w][id], req[w].p)
      changed == u.room # loaded[w][id]
      raises == req[w].fault = "commit" \/ (changed /\ id \notin DOMAIN store)
  IN  /\ pc[w] = "loaded"
      /\ req[w].op = "update"
      /\ session' = [session EXCEPT ![w] = SessionAfterUpdate(id, u)]
      /\ UNCHANGED <<nextId, req, deleted, createdAs>>
      /\ IF u.st = "run" /\ ~raises
         THEN /\ store' = IF changed
                          THEN Put(store, id, RowAfterCommit(store[id], loaded[w][id], u.room))
                          ELSE store
              /\ pc' = [pc EXCEPT ![w] = "committed"]
              /\ UNCHANGED <<loaded, resp>>
         ELSE /\ store' = store
              /\ Return(w, IF u.st = "400" THEN Resp(400, u.message)
                           ELSE Resp(500, "Update failed"))

(***************************************************************************)
(* The answer of a committed update (line 364): room.to_dict() reads the   *)
(* row from the storage layer again, the commit having expired the record, *)
(* and so gives the row as it is stored by then.  When the row has been    *)
(* deleted since, the read raises, in to_dict's own except clause too, and *)
(* the handler's except clause answers 500.                                *)
(***************************************************************************)
UpdateReturn(w) ==
  LET id == req[w].id
  IN  /\ pc[w] = "committed"
      /\ Return(w, IF id \in DOMAIN store
                   THEN [Resp(200, "") EXCEPT !.room = ToDict(id, store[id])]
                   ELSE Resp(500, "Update failed"))
      /\ UNCHANGED <<store, nextId, session, req, deleted, createdAs>>

(***************************************************************************)
(* delete_study_room, in its two round trips: StudyRoom.query.get, then    *)
(* db.session.delete(room) and db.session.commit().                        *)
(***************************************************************************)
DeleteLookup(w, id, fault) ==
  /\ pc[w] = "idle"
  /\ req' = [req EXCEPT ![w] = Req("delete", id, NoPayload, fault)]
  /\ UNCHANGED <<store, nextId, session, deleted>>
  /\ IF fault = "lookup"
     THEN createdAs' = createdAs /\ Return(w, Resp(500, "Delete failed"))
     ELSE IF id \notin DOMAIN store
     THEN createdAs' = createdAs /\ Return(w, Resp(404, "Room not found"))
     ELSE /\ pc' = [pc EXCEPT ![w] = "loaded"]
          /\ loaded' = [loaded EXCEPT ![w] = Put(Empty, id, store[id])]
          /\ createdAs' = Remove(createdAs, id)
          /\ resp' = resp

(* a variant that answers without deleting *)
StoreAfterDeleteKept(rooms, id) == rooms

(* db.session.delete(room); db.session.commit() *)
StoreAfterDelete(rooms, id) == Remove(rooms, id)

(* the commit raises under fault "commit" and the except clause answers    *)
(* 500 after a rollback; a DELETE that finds its row already gone deletes  *)
(* nothing and does not raise                                              *)
DeleteCommit(w) ==
  LET id == req[w].id
  IN  /\ pc[w] = "loaded"
      /\ req[w].op = "delete"
      /\ UNCHANGED <<nextId, session, req, createdAs>>
      /\ IF req[w].fault = "commit"
         THEN /\ UNCHANGED <<store, deleted>>
              /\ Return(w, Resp(500, "Delete failed"))
         ELSE /\ store' = StoreAfterDelete(store, id)
              /\ deleted' = deleted \cup {id}
              /\ Return(w, Resp(200, "Room deleted successfully"))

(* the end of the request: the request-scoped session is discarded *)
EndRequest(w) ==
  /\ pc[w] = "returned"
  /\ pc' = [pc EXCEPT ![w] = "idle"]
  /\ session' = [session EXCEPT ![w] = Empty]
  /\ req' = [req EXCEPT ![w] = NoReq]
  /\ resp' = [resp EXCEPT ![w] = NoResp]
  /\ UNCHANGED <<store, nextId, loaded, deleted, createdAs>>

(***************************************************************************)
(* The handlers over a storage layer that does not fail, one request at a  *)
(* time: the requests are served by the first worker.                      *)
(***************************************************************************)
Serial == CHOOSE w \in Workers : \A v \in Workers : w <= v

Create == \E p \in CreateSamples : CreateStudyRoom(Serial, p, "none")

Get == \E id \in RoomIds : GetStudyRoom(Serial, id, "none")

GetAll == \E order \in QueryAll(DOMAIN store) : GetAllStudyRooms(Serial, "none", order)

Update == \E id \in RoomIds, p \in UpdateSamples : UpdateLookup(Serial, id, p, "none")

Delete == \E id \in RoomIds : DeleteLookup(Serial, id, "none")

CreateDone == \E w \in Workers : CreateReturn(w)

UpdateDone == \E w \in Workers : UpdateCommit(w)

UpdateAnswer == \E w \in Workers : UpdateReturn(w)

DeleteDone == \E w \in Workers : DeleteCommit(w)

End == \E w \in Workers : EndRequest(w)

Next ==
  \/ Create \/ CreateDone \/ Get \/ GetAll
  \/ Update \/ UpdateDone \/ UpdateAnswer
  \/ Delete \/ DeleteDone \/ End

Spec == Init /\ [][Next]_vars

(* the validation pipeline over the wide payload set; no update is issued *)
CreateWide == \E p \in WideCreates : CreateStudyRoom(Serial, p, "none")

NextCreate == CreateWide \/ CreateDone \/ Get \/ GetAll \/ Delete \/ DeleteDone \/ End

SpecCreate == Init /\ [][NextCreate]_vars

(***************************************************************************)
(* The read paths on rows the handlers did not write, with the lookup      *)
(* allowed to fail.  The table may hold rows written by other means, whose *)
(* start_time / end_time the read paths defend against: None, a string,    *)
(* an object without strftime, an object whose strftime raises; such an    *)
(* object may be falsy.  An update that assigns nothing answers with       *)
(* to_dict of the row.                                                     *)
(***************************************************************************)
StoredTimes(d) ==
  {Combine(d, [h |-> 9, mi |-> 0]), TNone, TStr(SJunk), TStr(SNineShort), TStr(<<>>),
   TNoAttr(<<"4", "2">>, TRUE), TNoAttr(<<"0", ".", "0", "0", "0">>, FALSE), TRaises(TRUE),
   TRaises(FALSE)}

LegacyRows ==
  {StudyRoom(<<"A">>, 5, 1, JNull, <<2024, 6, 1>>, st,
             Combine(<<2024, 6, 1>>, [h |-> 10, mi |-> 30]), <<"L">>, <<"o", "n">>)
     : st \in StoredTimes(<<2024, 6, 1>>)}
  \cup
  {StudyRoom(<<"A">>, 5, 1, JNull, <<2024, 6, 1>>,
             Combine(<<2024, 6, 1>>, [h |-> 9, mi |-> 0]), et, <<"L">>, <<"o", "n">>)
     : et \in StoredTimes(<<2024, 6, 1>>)}

InitFault ==
  /\ \E k \in 0..MaxRooms : store \in [1..k -> LegacyRows] /\ nextId = k + 1
  /\ session = [w \in Workers |-> Empty]
  /\ loaded = [w \in Workers |-> Empty]
  /\ pc = [w \in Workers |-> "idle"]
  /\ req = [w \in Workers |-> NoReq]
  /\ resp = [w \in Workers |-> NoResp]
  /\ deleted = {}
  /\ createdAs = Empty

Faults == {"none", "lookup"}

GetFault == \E id \in RoomIds, f \in Faults : GetStudyRoom(Serial, id, f)

GetAllFault ==
  \E f \in Faults, order \in QueryAll(DOMAIN store) : GetAllStudyRooms(Serial, f, order)

UpdateNothing == \E id \in RoomIds : UpdateLookup(Serial, id, NoPayload, "none")

NextFault ==
  \/ GetFault \/ GetAllFault
  \/ UpdateNothing \/ UpdateDone \/ UpdateAnswer
  \/ Delete \/ DeleteDone \/ End

SpecFault == InitFault /\ [][NextFault]_vars

(***************************************************************************)
(* The write paths with the lookup and the commit allowed to fail.         *)
(***************************************************************************)
WriteFaults == {"none", "lookup", "commit"}

WriteUpdateSamples ==
  {NoPayload,
   [NoPayload EXCEPT !.name = JStr(<<" ", "B", " ">>)],
   [NoPayload EXCEPT !.name = JStr(<<" ", "B", " ">>), !.capacity = JStr(<<"a", "b", "c">>)],
   [NoPayload EXCEPT !.name = JNull, !.capacity = JStr(<<"a", "b", "c">>)],
   [NoPayload EXCEPT !.capacity = JInf],
   [NoPayload EXCEPT !.capacity = JFloat(-5, 2)],
   [NoPayload EXCEPT !.date = JStr(SDate1Short), !.start_time = JStr(SNinePadded)],
   [NoPayload EXCEPT !.date = JStr(SDate2)]}

CreateFault ==
  \E p \in CreateSamples, f \in {"none", "commit"} : CreateStudyRoom(Serial, p, f)

UpdateFault ==
  \E id \in RoomIds, p \in WriteUpdateSamples, f \in WriteFaults :
    UpdateLookup(Serial, id, p, f)

DeleteFault == \E id \in RoomIds, f \in WriteFaults : DeleteLookup(Serial, id, f)

NextWrite ==
  \/ CreateFault \/ CreateDone
  \/ UpdateFault \/ UpdateDone \/ UpdateAnswer
  \/ DeleteFault \/ DeleteDone
  \/ Get \/ GetAll \/ End

SpecWrite == Init /\ [][NextWrite]_vars

(***************************************************************************)
(* Requests served by several workers at once: any idle worker serves any  *)
(* request, and between the round trips of a create, an update or a delete *)
(* to the storage layer the other workers' requests run.                   *)
(***************************************************************************)
RaceUpdateSamples == {[NoPayload EXCEPT !.date = JStr(SDate2)]}

RaceCreate == \E w \in Workers : CreateStudyRoom(w, ValidPayload, "none")

RaceGet == \E w \in Workers, id \in RoomIds : GetStudyRoom(w, id, "none")

RaceGetAll ==
  \E w \in Workers, order \in QueryAll(DOMAIN store) : GetAllStudyRooms(w, "none", order)

RaceUpdate ==
  \E w \in Workers, id \in RoomIds, p \in RaceUpdateSamples : UpdateLookup(w, id, p, "none")

RaceDelete == \E w \in Workers, id \in RoomIds : DeleteLookup(w, id, "none")

NextRace ==
  \/ RaceCreate \/ CreateDone \/ RaceGet \/ RaceGetAll
  \/ RaceUpdate \/ UpdateDone \/ UpdateAnswer
  \/ RaceDelete \/ DeleteDone \/ End

SpecRace == Init /\ [][NextRace]_vars

(***************************************************************************)
(* Properties.                                                             *)
(***************************************************************************)
Returned(w, op) == pc[w] = "returned" /\ req[w].op = op

(* worker w's handler returns in this step *)
Handles(w, op) == pc[w] # "returned" /\ pc'[w] = "returned" /\ req'[w].op = op

(* worker w's handler is entered in this step *)
Starts(w, op) == pc[w] = "idle" /\ pc'[w] # "idle" /\ req'[w].op = op

(* C1: every stored room record has capacity > 0, whatever requests were   *)
(* made.                                                                   *)
C1_StoredCapacityPositive == \A id \in DOMAIN store : store[id].capacity > 0

(* the capacities C2 speaks of: an integer <= 0 (given as a number or as a *)
(* string of one) or a string that does not coerce to an integer           *)
RejectedCapacity(j) ==
  \/ j.t = "int" /\ j.n <= 0
  \/ j.t = "str" /\ (~IntOfStr(j.s).ok \/ IntOfStr(j.s).v <= 0)

(* C2: a create request whose capacity is an integer <= 0 or a string that *)
(* does not coerce to an integer is answered 400 and leaves the stored     *)
(* records as they were.                                                   *)
C2_BadCapacityAnswered400 ==
  [][\A w \in Workers :
       (Handles(w, "create") /\ RejectedCapacity(req'[w].p.capacity))
         => (resp'[w].status = 400 /\ store' = store)]_vars

(* the nine validation steps of create as the specification lists them: a  *)
(* step passes when its field has the stated form                          *)
NonEmptyString(j) == j.t = "str" /\ Strip(j.s) # <<>>

StepPasses(k, p) ==
  CASE k = 1 -> \A f \in RequiredFields : p[f].t # "absent"
    [] k = 2 -> NonEmptyString(p.name)
    [] k = 3 -> PyInt(p.capacity).ok /\ PyInt(p.capacity).v > 0
    [] k = 4 -> PyInt(p.creator_id).ok
    [] k = 5 -> NonEmptyString(p.date) /\ ParseDate(Strip(p.date.s)).ok
    [] k = 6 -> NonEmptyString(p.start_time) /\ ParseTime(Strip(p.start_time.s)).ok
    [] k = 7 -> NonEmptyString(p.end_time) /\ ParseTime(Strip(p.end_time.s)).ok
    [] k = 8 -> NonEmptyString(p.location)
    [] k = 9 -> NonEmptyString(p.mode)

Min(S) == CHOOSE x \in S : \A y \in S : x <= y

FirstFailingStep(p) ==
  IF \A k \in 1..9 : StepPasses(k, p) THEN 0
  ELSE Min({k \in 1..9 : ~StepPasses(k, p)})

StepOfMessage(m) ==
  CASE m = "Missing required fields" -> 1
    [] m = "Study room name cannot be empty" -> 2
    [] m \in {"Capacity must be an integer", "Capacity must be greater than zero"} -> 3
    [] m = "Creator ID must be an integer" -> 4
    [] m \in {"Date is required", "Invalid date format, expected YYYY-MM-DD"} -> 5
    [] m \in {"Start time is required", "Invalid start_time format, expected HH:mm"} -> 6
    [] m \in {"End time is required", "Invalid end_time format, expected HH:mm"} -> 7
    [] m = "Location is required" -> 8
    [] m = "Mode is required" -> 9
    [] OTHER -> 0

(* C3: a create payload that fails one of the nine validation steps is     *)
(* answered 400 with the message of the first failing step and persists    *)
(* nothing; 201 is answered only when all nine steps pass.                 *)
C3_FirstFailingStepAnswers ==
  [][\A w \in Workers :
       Handles(w, "create")
         => /\ FirstFailingStep(req'[w].p) # 0
                 => /\ resp'[w].status = 400
                    /\ StepOfMessage(resp'[w].message) = FirstFailingStep(req'[w].p)
                    /\ store' = store
            /\ resp'[w].status = 201 => FirstFailingStep(req'[w].p) = 0]_vars

(* C4: an update that found its room, whose capacity int() rejects (a      *)
(* string such as "abc"), and whose name and description (the fields       *)
(* handled before capacity) are strings where present, is answered 400,    *)
(* and the record in the session carries the trimmed name and description  *)
(* of the payload.                                                         *)
C4_FieldsBeforeCapacityStayApplied ==
  [][\A w \in Workers :
       (/\ Handles(w, "update")
        /\ pc[w] = "loaded"
        /\ req[w].p.capacity.t # "absent"
        /\ ~PyInt(req[w].p.capacity).ok /\ ~PyInt(req[w].p.capacity).raises
        /\ req[w].p.name.t \in {"absent", "str"}
        /\ req[w].p.description.t \in {"absent", "str"})
         => /\ resp'[w].status = 400
            /\ resp'[w].message = "Capacity must be an integer"
            /\ req[w].p.name.t = "str"
                 => /\ req[w].id \in DOMAIN session'[w]
                    /\ session'[w][req[w].id].name = Strip(req[w].p.name.s)
            /\ req[w].p.description.t = "str"
                 => /\ req[w].id \in DOMAIN session'[w]
                    /\ session'[w][req[w].id].description
                         = JStr(Strip(req[w].p.description.s))]_vars

C4_Witness ==
  \E w \in Workers :
    /\ Returned(w, "update")
    /\ resp[w].status = 400
    /\ req[w].p.capacity.t = "str" /\ ~PyInt(req[w].p.capacity).ok
    /\ req[w].p.name.t = "str" /\ req[w].p.description.t = "str"
    /\ req[w].id \in DOMAIN session[w]
    /\ req[w].id \in DOMAIN store
    /\ session[w][req[w].id].name # store[req[w].id].name
    /\ session[w][req[w].id].description # store[req[w].id].description

(* C5: when a handler has returned, no assigned record is left in the      *)
(* session uncommitted and not rolled back.                                *)
C5_NothingPendingOnReturn == \A w \in Workers : pc[w] = "returned" => session[w] = Empty

(* the forms C6 names: YYYY-MM-DD and HH:MM, every digit written *)
IsIsoDate(str) ==
  /\ Len(str) = 10
  /\ \A i \in {1, 2, 3, 4, 6, 7, 9, 10} : str[i] \in Digits
  /\ str[5] = "-" /\ str[8] = "-"

IsHM(str) ==
  /\ Len(str) = 5
  /\ \A i \in {1, 2, 4, 5} : str[i] \in Digits
  /\ str[3] = ":"

(* C6: a room created with date D (YYYY-MM-DD), start_time S and end_time  *)
(* E (HH:MM), and neither updated nor deleted since, is fetched with       *)
(* status 200, date = D, start_time = S and end_time = E.                  *)
C6_CreateFetchRoundTrip ==
  [][\A w \in Workers :
       (/\ Handles(w, "get")
        /\ req'[w].id \in DOMAIN createdAs
        /\ IsIsoDate(createdAs[req'[w].id].date)
        /\ IsHM(createdAs[req'[w].id].start_time)
        /\ IsHM(createdAs[req'[w].id].end_time))
         => /\ resp'[w].status = 200
            /\ resp'[w].room.room_id = req'[w].id
            /\ resp'[w].room.date = JStr(createdAs[req'[w].id].date)
            /\ resp'[w].room.start_time = createdAs[req'[w].id].start_time
            /\ resp'[w].room.end_time = createdAs[req'[w].id].end_time]_vars

C6_Witness ==
  \E w \in Workers :
    /\ Returned(w, "get")
    /\ req[w].id \in DOMAIN createdAs
    /\ createdAs[req[w].id].date = SDate2
    /\ createdAs[req[w].id].start_time = SLastMinute
    /\ resp[w].status = 200
    /\ resp[w].room.date = JStr(SDate2)
    /\ resp[w].room.start_time = SLastMinute

(* C7 as stated: fetch-one answers 200 or 404, 404 exactly when no record  *)
(* has the id, and fetch-all answers 200, whatever is stored and whether   *)
(* or not the lookup fails.                                                *)
C7_ReadsNever5xx_Original ==
  \A w \in Workers :
    /\ Returned(w, "get")
         => /\ resp[w].status \in {200, 404}
            /\ resp[w].status = 404 <=> req[w].id \notin DOMAIN store
    /\ Returned(w, "list") => resp[w].status = 200

(* C7 amended: fetch-one answers 200 or 404, 404 exactly when the lookup   *)
(* succeeds and finds no record with the id (a failed lookup is answered   *)
(* 200 with a placeholder carrying an error field); fetch-all answers 200. *)
C7_ReadsNever5xx ==
  \A w \in Workers :
    /\ Returned(w, "get")
         => /\ resp[w].status \in {200, 404}
            /\ resp[w].status = 404 <=> (req[w].fault = "none" /\ req[w].id \notin DOMAIN store)
            /\ req[w].fault = "lookup" => resp[w].room.error
    /\ Returned(w, "list") => resp[w].status = 200

C7_Witness ==
  \E w \in Workers :
    /\ Returned(w, "get")
    /\ req[w].fault = "lookup"
    /\ req[w].id \notin DOMAIN store
    /\ resp[w].status = 200
    /\ resp[w].room.error

(* a stored time the read paths are to default: anything but a datetime    *)
Malformed(tv) == tv.t # "datetime"

(* C8: on fetch-one and fetch-all a stored start_time or end_time that is  *)
(* null, unparseable or malformed is returned as "00:00" with status 200,  *)
(* and every returned start_time and end_time is a well-formed HH:MM.      *)
C8_MalformedTimesDefault ==
  \A w \in Workers :
    /\ (Returned(w, "get") /\ req[w].fault = "none" /\ req[w].id \in DOMAIN store)
         => /\ resp[w].status = 200
            /\ IsHM(resp[w].room.start_time) /\ IsHM(resp[w].room.end_time)
            /\ Malformed(store[req[w].id].start_time) => resp[w].room.start_time = ZeroTime
            /\ Malformed(store[req[w].id].end_time) => resp[w].room.end_time = ZeroTime
    /\ (Returned(w, "list") /\ req[w].fault = "none")
         => /\ resp[w].status = 200
            /\ \A i \in 1..Len(resp[w].rooms) :
                 IsHM(resp[w].rooms[i].start_time) /\ IsHM(resp[w].rooms[i].end_time)

(* the entry fetch-all is to hold for the stored record id: the record's   *)
(* fields, or a placeholder with an error field when its serialization     *)
(* fails                                                                   *)
EntryFor(e, id) ==
  /\ e.room_id = id
  /\ IF store[id].start_time.t = "raises" \/ store[id].end_time.t = "raises"
     THEN e.error /\ e.capacity = 0 /\ e.start_time = ZeroTime /\ e.end_time = ZeroTime
     ELSE ~e.error /\ e.name = store[id].name /\ e.capacity = store[id].capacity

OneEntryPerRecord(w) ==
  /\ resp[w].status = 200
  /\ Len(resp[w].rooms) = Cardinality(DOMAIN store)
  /\ \A id \in DOMAIN store :
       \E i \in 1..Len(resp[w].rooms) : EntryFor(resp[w].rooms[i], id)

(* C9 as stated: fetch-all answers 200 with exactly one entry per stored   *)
(* record, a placeholder for a record whose serialization fails and the    *)
(* other entries unaffected; [] on an empty store.                         *)
C9_OneEntryPerRecord_Original ==
  \A w \in Workers : Returned(w, "list") => OneEntryPerRecord(w)

(* C9 amended: as stated when the listing query succeeds; when the listing *)
(* query itself fails the answer is 200 with [].                           *)
C9_OneEntryPerRecord ==
  \A w \in Workers :
    /\ (Returned(w, "list") /\ req[w].fault = "none") => OneEntryPerRecord(w)
    /\ (Returned(w, "list") /\ req[w].fault = "lookup")
         => (resp[w].status = 200 /\ resp[w].rooms = <<>>)

C9_Witness ==
  \E w \in Workers :
    /\ Returned(w, "list")
    /\ req[w].fault = "none"
    /\ \E i, j \in 1..Len(resp[w].rooms) : resp[w].rooms[i].error /\ ~resp[w].rooms[j].error

(* C10: once a delete of an id has answered 200, every fetch-one, update   *)
(* or delete of that id entered later answers 404 "Room not found" and     *)
(* fetch-all does not list it; a delete of an id with no record answers    *)
(* 404 and leaves the store as it was; a delete answered 200 leaves no     *)
(* record with the id.                                                     *)
C10_DeletedStaysGone ==
  [][\A w \in Workers :
       /\ ((\E op \in {"get", "update", "delete"} : Starts(w, op)) /\ req'[w].id \in deleted)
            => /\ pc'[w] = "returned"
               /\ resp'[w].status = 404 /\ resp'[w].message = "Room not found"
       /\ Handles(w, "list")
            => \A i \in 1..Len(resp'[w].rooms) : resp'[w].rooms[i].room_id \notin deleted
       /\ (Starts(w, "delete") /\ req'[w].id \notin DOMAIN store)
            => pc'[w] = "returned" /\ resp'[w].status = 404 /\ store' = store
       /\ (Handles(w, "delete") /\ resp'[w].status = 200)
            => req'[w].id \notin DOMAIN store']_vars

(* a fetch-all that lists a room created after a deleted one and not the   *)
(* deleted one, next to an update of the deleted id answered 404           *)
C10_Witness ==
  \E w, v \in Workers, id \in deleted :
    /\ Returned(w, "list")
    /\ Len(resp[w].rooms) > 0
    /\ \A i \in 1..Len(resp[w].rooms) : resp[w].rooms[i].room_id > id
    /\ Returned(v, "update")
    /\ req[v].id = id
    /\ resp[v].status = 404

(* C11: in every stored record start_time is the combination of the        *)
(* record's date with a time-of-day, and so is end_time when present: the  *)
(* calendar-date part of each equals the record's date field, after any    *)
(* sequence of creates and successful updates, an update of date alone     *)
(* included.                                                               *)
C11_TimesCarryRecordDate ==
  \A id \in DOMAIN store :
    /\ store[id].start_time.t = "datetime"
    /\ store[id].start_time.d = store[id].date
    /\ store[id].end_time.t # "null"
         => (store[id].end_time.t = "datetime" /\ store[id].end_time.d = store[id].date)

====
